---- MODULE Spec2Model ----
(***************************************************************************)
(* The llama.cpp transformer backend of lsp-ai                             *)
(* (src/transformer_backends/llama_cpp/mod.rs): parsing of the run         *)
(* parameters, resolution of the prompt string, and the three operations   *)
(* of the TransformerBackend trait.                                        *)
(*                                                                         *)
(* Strings that are concatenated or rendered are tuples of atoms; names    *)
(* (roles, template names, error messages) are TLA+ strings.  Option<T>    *)
(* is a tuple of length 0 (None) or 1 (Some).                              *)
(***************************************************************************)
EXTENDS Integers, Sequences, FiniteSets, TLC

VARIABLES model, task

vars == <<model, task>>

----------------------------------------------------------------------------
(* Bounds *)

NumRequests == 2
MaxMessages == 1

Requests == 1..NumRequests

----------------------------------------------------------------------------
(* Option and Result *)

None == <<>>
Some(x) == <<x>>

Ok(v) == [ok |-> TRUE, val |-> v, err |-> ""]
Err(e) == [ok |-> FALSE, val |-> <<>>, err |-> e]

----------------------------------------------------------------------------
(* JSON payloads (serde_json::Value), one encoding per field shape *)

JAbsent == [t |-> "absent", n |-> 0, s |-> ""]
JNull == [t |-> "null", n |-> 0, s |-> ""]
JNum(n) == [t |-> "num", n |-> n, s |-> ""]
JStr(s) == [t |-> "str", n |-> 0, s |-> s]

JNoFim == [t |-> "absent", start |-> "", middle |-> "", end |-> ""]
JFim(a, b, c) == [t |-> "obj", start |-> a, middle |-> b, end |-> c]

JNoMessages == [t |-> "absent", items |-> <<>>]
JMessages(ms) == [t |-> "arr", items |-> ms]

----------------------------------------------------------------------------
(* LLaMACPPRunParams and its deserialization *)

max_new_tokens_default == 32

NoParams ==
  [fim |-> None, messages |-> None, chat_template |-> None,
   chat_format |-> None, max_new_tokens |-> 0]

\* Option<String>: a missing field or null is None, a string is Some.
ParseOptString(j) ==
  CASE j.t \in {"absent", "null"} -> Ok(None)
    [] j.t = "str" -> Ok(Some(j.s))
    [] OTHER -> Err("invalid type: expected a string")

\* Mutant: a value of the wrong type falls back to the default instead of
\* failing the parse.
ParseMaxNewTokens_Lenient(j) ==
  CASE j.t = "num" /\ j.n >= 0 -> [ok |-> TRUE, n |-> j.n]
    [] OTHER -> [ok |-> TRUE, n |-> max_new_tokens_default]

\* Mutant: the field is read under the name max_tokens, so max_new_tokens
\* is never found and the default always applies.
ParseMaxNewTokens_Renamed(j) ==
  CASE j.t \in {"absent", "num"} -> [ok |-> TRUE, n |-> max_new_tokens_default]
    [] OTHER -> [ok |-> FALSE, n |-> 0]

\* usize with #[serde(default = "max_new_tokens_default")].
ParseMaxNewTokens(j) ==
  CASE j.t = "absent" -> [ok |-> TRUE, n |-> max_new_tokens_default]
    [] j.t = "num" /\ j.n >= 0 -> [ok |-> TRUE, n |-> j.n]
    [] OTHER -> [ok |-> FALSE, n |-> 0]

\* Option<FIM>
ParseOptFim(j) ==
  CASE j.t \in {"absent", "null"} -> Ok(None)
    [] j.t = "obj" ->
         Ok(Some([start |-> j.start, middle |-> j.middle, end |-> j.end]))
    [] OTHER -> Err("invalid type: expected struct FIM")

\* Option<Vec<ChatMessage>>
ParseOptMessages(j) ==
  CASE j.t \in {"absent", "null"} -> Ok(None)
    [] j.t = "arr" -> Ok(Some(j.items))
    [] OTHER -> Err("invalid type: expected a sequence")

\* serde_json::from_value::<LLaMACPPRunParams>: fields the struct does not
\* name (max_tokens) are not looked at.
from_value(v) ==
  LET fim == ParseOptFim(v.fim)
      messages == ParseOptMessages(v.messages)
      chat_template == ParseOptString(v.chat_template)
      chat_format == ParseOptString(v.chat_format)
      max_new_tokens == ParseMaxNewTokens(v.max_new_tokens)
  IN IF fim.ok /\ messages.ok /\ chat_template.ok /\ chat_format.ok
          /\ max_new_tokens.ok
       THEN [ok |-> TRUE,
             params |-> [fim |-> fim.val, messages |-> messages.val,
                         chat_template |-> chat_template.val,
                         chat_format |-> chat_format.val,
                         max_new_tokens |-> max_new_tokens.n]]
       ELSE [ok |-> FALSE, params |-> NoParams]

----------------------------------------------------------------------------
(* Collaborators: utils, template, and the llama.cpp Model *)

RECURSIVE Substitute(_, _)
\* content.replace("{CONTEXT}", &prompt.context).replace("{CODE}", &prompt.code)
Substitute(content, prompt) ==
  IF content = <<>> THEN <<>>
  ELSE LET h == Head(content)
           r == Substitute(Tail(content), prompt)
       IN CASE h = "{CONTEXT}" -> prompt.context \o r
            [] h = "{CODE}" -> prompt.code \o r
            [] OTHER -> <<h>> \o r

format_chat_messages(messages, prompt) ==
  [i \in 1..Len(messages) |->
     [role |-> messages[i].role,
      content |-> Substitute(messages[i].content, prompt)]]

RECURSIVE Transcript(_)
Transcript(messages) ==
  IF messages = <<>> THEN <<>>
  ELSE <<Head(messages).role>> \o Head(messages).content
         \o Transcript(Tail(messages))

BrokenTemplates == {"{% broken"}

\* crate::template::apply_chat_template, a pure function of its arguments.
apply_chat_template(chat_template, chat_messages, bos_token, eos_token) ==
  IF chat_template \in BrokenTemplates
    THEN Err("template render error")
    ELSE Ok(<<chat_template>> \o bos_token \o Transcript(chat_messages)
              \o eos_token)

get_bos_token(m) ==
  IF m.bos = None THEN Err("no bos token") ELSE Ok(m.bos[1])

get_eos_token(m) ==
  IF m.eos = None THEN Err("no eos token") ELSE Ok(m.eos[1])

\* Model::apply_chat_template(chat_messages, chat_format)
model_apply_chat_template(m, chat_messages, chat_format) ==
  CASE chat_format = None -> Ok(<<"default">> \o Transcript(chat_messages))
    [] chat_format # None /\ chat_format[1] \in m.formats ->
         Ok(<<chat_format[1]>> \o Transcript(chat_messages))
    [] OTHER -> Err("unknown chat format")

FimText(fim) ==
  IF fim = None THEN <<>> ELSE <<fim[1].start, fim[1].middle, fim[1].end>>

\* Model::complete(prompt, params): a deterministic engine.
model_complete(m, prompt, params) ==
  IF m.healthy
    THEN Ok(<<"completion">> \o prompt \o FimText(params.fim)
              \o <<ToString(params.max_new_tokens)>>)
    ELSE Err("engine failure")

----------------------------------------------------------------------------
(* Engine handles and the frame of one call of a trait method *)

Tokens(t) == {None, Some(<<t>>)}

Models ==
  [bos : Tokens("<s>"), eos : Tokens("</s>"), formats : {{"chatml"}},
   healthy : BOOLEAN]

NoArgs ==
  [chat_template |-> None, chat_messages |-> <<>>, chat_format |-> None,
   bos_token |-> <<>>, eos_token |-> <<>>, prompt |-> <<>>,
   params |-> NoParams]

\* One call made while serving a request, with its arguments and outcome.
Call(fn, ok, args) == [fn |-> fn, ok |-> ok, args |-> args]

EngineFns ==
  {"Model::get_bos_token", "Model::get_eos_token",
   "Model::apply_chat_template", "Model::complete"}

NoResponse == [status |-> "none", field |-> "", text |-> <<>>, error |-> ""]
Failure(e) == [status |-> "err", field |-> "", text |-> <<>>, error |-> e]

DoCompletionResponse(insert_text) ==
  [status |-> "ok", field |-> "insert_text", text |-> insert_text,
   error |-> ""]

DoGenerationResponse(generated_text) ==
  [status |-> "ok", field |-> "generated_text", text |-> generated_text,
   error |-> ""]

NoPrompt == [context |-> <<>>, code |-> <<>>]

NoPayload ==
  [fim |-> JNoFim, messages |-> JNoMessages, chat_template |-> JAbsent,
   chat_format |-> JAbsent, max_new_tokens |-> JAbsent,
   max_tokens |-> JAbsent]

IdleTask ==
  [pc |-> "idle", op |-> "", prompt |-> NoPrompt, payload |-> NoPayload,
   params |-> NoParams, chat_messages |-> <<>>, bos_token |-> <<>>,
   eos_token |-> <<>>, prompt_string |-> <<>>, response |-> NoResponse,
   trace |-> <<>>]

----------------------------------------------------------------------------
(* Decisions taken by the code, one definition per branch or `?` *)

\* Mutant: the parsed parameters are kept in one slot of the adapter that
\* every call reads.
SharedParams(tasks, r) == tasks[1].params

\* `let params: LLaMACPPRunParams = serde_json::from_value(params)?;` binds
\* the parameters in the frame of the call that parsed them.
OwnParams(tasks, r) == tasks[r].params

\* `match &params.messages`
HasMessages(params) == params.messages # None

\* Mutant: a named format, when given, wins over the custom template.
UsesCustomTemplate_FormatWins(params) ==
  params.chat_template # None /\ params.chat_format = None

\* `if let Some(chat_template) = &params.chat_template`
UsesCustomTemplate(params) == params.chat_template # None

\* Mutant: the retrieved context is prepended to the code.
RawPrompt_WithContext(prompt) == prompt.context \o prompt.code

\* `None => prompt.code.to_owned()`
RawPrompt(prompt) == prompt.code

\* Mutant: the engine's default template is always asked for.
NamedFormatArg_Default(params) == None

\* `params.chat_format.clone()`
NamedFormatArg(params) == params.chat_format

\* Mutant: a missing bos token is replaced by the empty string
\* (unwrap_or_default) and resolution goes on.
AfterBos_Ignored(res) == "eos"

\* `self.model.get_bos_token()?`
AfterBos(res) == IF res.ok THEN "eos" ELSE "failed"

\* `self.model.get_eos_token()?`
AfterEos(res) == IF res.ok THEN "render" ELSE "failed"

\* `self.model.complete(&prompt, params)` in do_completion
do_completion_call(t, params) ==
  [NoArgs EXCEPT !.prompt = t.prompt_string, !.params = params]

\* Mutant: do_generate hands the raw code to the engine instead of the
\* resolved prompt.
do_generate_call_Raw(t, params) ==
  [NoArgs EXCEPT !.prompt = t.prompt.code, !.params = params]

\* `self.model.complete(&prompt, params)` in do_generate
do_generate_call(t, params) ==
  [NoArgs EXCEPT !.prompt = t.prompt_string, !.params = params]

\* Mutant: a failed completion is tried again.
AfterComplete_Retry(res) == IF res.ok THEN "done" ELSE "complete"

\* `.map(|text| Response { text })`: Ok is wrapped, Err is returned.
AfterComplete(res) == IF res.ok THEN "done" ELSE "failed"

\* Mutant: streaming falls back to an empty non-streaming result.
do_generate_stream_Empty(request, params) == DoGenerationResponse(<<>>)

\* `anyhow::bail!("GenerationStream is not yet implemented")`
do_generate_stream(request, params) ==
  Failure("GenerationStream is not yet implemented")

----------------------------------------------------------------------------
(* Actions *)

Init ==
  /\ model \in Models
  /\ task = [r \in Requests |-> IdleTask]

Log(t, c) == Append(t.trace, c)

\* The caller invokes one of the three trait methods.
Submit(r, op, prompt, payload) ==
  /\ task[r].pc = "idle"
  /\ task' = [task EXCEPT ![r] =
       [IdleTask EXCEPT !.pc = IF op = "do_generate_stream" THEN "stream"
                               ELSE "parse",
                        !.op = op, !.prompt = prompt, !.payload = payload]]
  /\ UNCHANGED model

\* do_completion / do_generate, first statement.
Parse(r) ==
  LET t == task[r]
      res == from_value(t.payload)
  IN /\ t.pc = "parse"
     /\ task' = [task EXCEPT ![r] =
          [t EXCEPT !.pc = IF res.ok THEN "resolve" ELSE "failed",
                    !.params = res.params,
                    !.response = IF res.ok THEN NoResponse
                                 ELSE Failure("invalid parameters"),
                    !.trace = Log(t, Call("serde_json::from_value", res.ok,
                                          NoArgs))]]
     /\ UNCHANGED model

\* get_prompt_string, `None => prompt.code.to_owned()`.
ResolveRaw(r) ==
  LET t == task[r]
      params == OwnParams(task, r)
  IN /\ t.pc = "resolve"
     /\ ~HasMessages(params)
     /\ task' = [task EXCEPT ![r] =
          [t EXCEPT !.pc = "complete",
                    !.prompt_string = RawPrompt(t.prompt)]]
     /\ UNCHANGED model

\* get_prompt_string, `Some(completion_messages) =>`: the turns are
\* materialized and the template branch is chosen.
ResolveChat(r) ==
  LET t == task[r]
      params == OwnParams(task, r)
      chat_messages == format_chat_messages(params.messages[1], t.prompt)
  IN /\ t.pc = "resolve"
     /\ HasMessages(params)
     /\ task' = [task EXCEPT ![r] =
          [t EXCEPT !.pc = IF UsesCustomTemplate(params) THEN "bos"
                           ELSE "named",
                    !.chat_messages = chat_messages,
                    !.trace = Log(t, Call("format_chat_messages", TRUE,
                                [NoArgs EXCEPT
                                   !.chat_messages = chat_messages]))]]
     /\ UNCHANGED model

GetBosToken(r) ==
  LET t == task[r]
      res == get_bos_token(model)
  IN /\ t.pc = "bos"
     /\ task' = [task EXCEPT ![r] =
          [t EXCEPT !.pc = AfterBos(res),
                    !.bos_token = res.val,
                    !.response = IF AfterBos(res) = "failed"
                                 THEN Failure(res.err) ELSE NoResponse,
                    !.trace = Log(t, Call("Model::get_bos_token", res.ok,
                                          NoArgs))]]
     /\ UNCHANGED model

GetEosToken(r) ==
  LET t == task[r]
      res == get_eos_token(model)
  IN /\ t.pc = "eos"
     /\ task' = [task EXCEPT ![r] =
          [t EXCEPT !.pc = AfterEos(res),
                    !.eos_token = res.val,
                    !.response = IF AfterEos(res) = "failed"
                                 THEN Failure(res.err) ELSE NoResponse,
                    !.trace = Log(t, Call("Model::get_eos_token", res.ok,
                                          NoArgs))]]
     /\ UNCHANGED model

\* crate::template::apply_chat_template(chat_template, chat_messages, ..)?
RenderTemplate(r) ==
  LET t == task[r]
      params == OwnParams(task, r)
      res == apply_chat_template(params.chat_template[1], t.chat_messages,
                                 t.bos_token, t.eos_token)
  IN /\ t.pc = "render"
     /\ task' = [task EXCEPT ![r] =
          [t EXCEPT !.pc = IF res.ok THEN "complete" ELSE "failed",
                    !.prompt_string = res.val,
                    !.response = IF res.ok THEN NoResponse
                                 ELSE Failure(res.err),
                    !.trace = Log(t, Call("template::apply_chat_template",
                                res.ok,
                                [NoArgs EXCEPT
                                   !.chat_template = params.chat_template,
                                   !.chat_messages = t.chat_messages,
                                   !.bos_token = t.bos_token,
                                   !.eos_token = t.eos_token]))]]
     /\ UNCHANGED model

\* self.model.apply_chat_template(chat_messages, params.chat_format.clone())?
NamedTemplate(r) ==
  LET t == task[r]
      params == OwnParams(task, r)
      chat_format == NamedFormatArg(params)
      res == model_apply_chat_template(model, t.chat_messages, chat_format)
  IN /\ t.pc = "named"
     /\ task' = [task EXCEPT ![r] =
          [t EXCEPT !.pc = IF res.ok THEN "complete" ELSE "failed",
                    !.prompt_string = res.val,
                    !.response = IF res.ok THEN NoResponse
                                 ELSE Failure(res.err),
                    !.trace = Log(t, Call("Model::apply_chat_template",
                                res.ok,
                                [NoArgs EXCEPT
                                   !.chat_messages = t.chat_messages,
                                   !.chat_format = chat_format]))]]
     /\ UNCHANGED model

\* self.model.complete(&prompt, params).map(..), last expression of
\* do_completion and of do_generate.
Complete(r) ==
  LET t == task[r]
      params == OwnParams(task, r)
      args == IF t.op = "do_completion" THEN do_completion_call(t, params)
              ELSE do_generate_call(t, params)
      res == model_complete(model, args.prompt, args.params)
      wrapped == IF t.op = "do_completion" THEN DoCompletionResponse(res.val)
                 ELSE DoGenerationResponse(res.val)
  IN /\ t.pc = "complete"
     /\ task' = [task EXCEPT ![r] =
          [t EXCEPT !.pc = AfterComplete(res),
                    !.response = CASE AfterComplete(res) = "done" -> wrapped
                                   [] AfterComplete(res) = "failed" ->
                                        Failure(res.err)
                                   [] OTHER -> NoResponse,
                    !.trace = Log(t, Call("Model::complete", res.ok, args))]]
     /\ UNCHANGED model

\* do_generate_stream
GenerateStream(r) ==
  LET t == task[r]
      res == do_generate_stream(t.prompt, t.payload)
  IN /\ t.pc = "stream"
     /\ task' = [task EXCEPT ![r] =
          [t EXCEPT !.pc = IF res.status = "ok" THEN "done" ELSE "failed",
                    !.response = res]]
     /\ UNCHANGED model

\* The future resolves: the caller takes the response and the frame is
\* dropped.
Return(r) ==
  /\ task[r].pc \in {"done", "failed"}
  /\ task' = [task EXCEPT ![r] = IdleTask]
  /\ UNCHANGED model

Step(r) ==
  \/ Parse(r)
  \/ ResolveRaw(r)
  \/ ResolveChat(r)
  \/ GetBosToken(r)
  \/ GetEosToken(r)
  \/ RenderTemplate(r)
  \/ NamedTemplate(r)
  \/ Complete(r)
  \/ GenerateStream(r)
  \/ Return(r)

----------------------------------------------------------------------------
(* Inputs *)

Ops == {"do_completion", "do_generate", "do_generate_stream"}

Prompts ==
  {[context |-> <<"ctx">>, code |-> <<"code1">>],
   [context |-> <<>>, code |-> <<"code2">>]}

Turns ==
  {[role |-> "system", content |-> <<"Use", "{CONTEXT}">>],
   [role |-> "user", content |-> <<"Complete", "{CODE}">>]}

MessageLists == UNION {[1..n -> Turns] : n \in 0..MaxMessages}

Fim == JFim("<fim_prefix>", "<fim_suffix>", "<fim_middle>")

Payloads ==
  [fim : {JNoFim, Fim},
   messages : {JNoMessages} \cup {JMessages(ms) : ms \in MessageLists},
   chat_template : {JAbsent, JStr("T1"), JStr("T2"), JStr("{% broken")},
   chat_format : {JAbsent, JStr("chatml"), JStr("llama9")},
   max_new_tokens : {JAbsent, JNum(64), JStr("abc")},
   max_tokens : {JAbsent, JNum(64)}]

UserTurn ==
  JMessages(<<[role |-> "user", content |-> <<"Complete", "{CODE}">>]>>)

RawPayload ==
  [NoPayload EXCEPT !.fim = Fim, !.max_new_tokens = JNum(64),
                    !.max_tokens = JNum(64)]

CustomPayload ==
  [NoPayload EXCEPT !.messages = UserTurn, !.chat_template = JStr("T1"),
                    !.chat_format = JStr("chatml"), !.fim = Fim]

NamedPayload ==
  [NoPayload EXCEPT !.messages = UserTurn, !.chat_format = JStr("chatml")]

UnknownFormatPayload ==
  [NoPayload EXCEPT !.messages = UserTurn, !.chat_format = JStr("llama9")]

MalformedPayload == [NoPayload EXCEPT !.max_new_tokens = JStr("abc")]

Code1 == [context |-> <<"ctx">>, code |-> <<"code1">>]

\* The calls of the concurrent specification: one payload per path through
\* the pipeline, under both operations, the custom-template path under
\* both code contexts.
ConcInputs ==
  [op : {"do_completion", "do_generate"}, prompt : Prompts,
   payload : {CustomPayload}]
  \cup [op : {"do_completion", "do_generate"}, prompt : {Code1},
        payload : {RawPayload, NamedPayload, UnknownFormatPayload,
                   MalformedPayload}]
  \cup [op : {"do_generate_stream"}, prompt : {Code1},
        payload : {RawPayload}]

ConcModels ==
  {m \in Models : /\ m.bos # None
                  /\ (m.eos = None => m.healthy)}

----------------------------------------------------------------------------
(* Specifications *)

AllIdle == \A q \in Requests : task[q].pc = "idle"

\* The caller awaits each call before it makes the next one.
Next ==
  \E r \in Requests :
    \/ /\ AllIdle
       /\ \E op \in Ops, prompt \in Prompts, payload \in Payloads :
            Submit(r, op, prompt, payload)
    \/ Step(r)

Spec == Init /\ [][Next]_vars

InitConc ==
  /\ model \in ConcModels
  /\ task = [r \in Requests |-> IdleTask]

\* The caller dispatches calls concurrently; their steps interleave.
NextConc ==
  \E r \in Requests :
    \/ /\ task[r].pc = "idle"
       /\ \E in \in ConcInputs : Submit(r, in.op, in.prompt, in.payload)
    \/ Step(r)

SpecConc == InitConc /\ [][NextConc]_vars

----------------------------------------------------------------------------
(* Vocabulary of the properties, stated on the caller's inputs *)

PipelineOps == {"do_completion", "do_generate"}

Given(j) == j.t \notin {"absent", "null"}

WellFormed(payload) ==
  /\ payload.fim.t \in {"absent", "null", "obj"}
  /\ payload.messages.t \in {"absent", "null", "arr"}
  /\ payload.chat_template.t \in {"absent", "null", "str"}
  /\ payload.chat_format.t \in {"absent", "null", "str"}
  /\ \/ payload.max_new_tokens.t = "absent"
     \/ payload.max_new_tokens.t = "num" /\ payload.max_new_tokens.n >= 0

OptionOf(j) == IF j.t = "str" THEN Some(j.s) ELSE None

Fns(t) == {t.trace[i].fn : i \in DOMAIN t.trace}

CallsOf(t, fns) == SelectSeq(t.trace, LAMBDA c : c.fn \in fns)

IsPrefix(a, b) == Len(a) <= Len(b) /\ a = SubSeq(b, 1, Len(a))

\* The turns handed to a template: the payload's messages with the code
\* context substituted.
MaterializedTurns(t) == format_chat_messages(t.payload.messages.items, t.prompt)

\* The prompt string has been resolved and not yet dropped.
Resolved(t) == t.pc \in {"complete", "done"} \/ "Model::complete" \in Fns(t)

Pipeline(r) == task[r].op \in PipelineOps

----------------------------------------------------------------------------
(* C1 *)

\* C1: a complete/generate request whose payload carries messages, a
\* chat_template and a chat_format never calls the engine's named-template
\* capability; once its prompt is resolved, the prompt is the rendering of
\* the custom template, obtained from exactly one call of the renderer.
C1_CustomTemplatePrecedence ==
  \A r \in Requests :
    LET t == task[r]
        renders == CallsOf(t, {"template::apply_chat_template"})
    IN (/\ Pipeline(r)
        /\ Given(t.payload.messages)
        /\ Given(t.payload.chat_template)
        /\ Given(t.payload.chat_format))
       => /\ "Model::apply_chat_template" \notin Fns(t)
          /\ Resolved(t) =>
               /\ Len(renders) = 1
               /\ renders[1].ok
               /\ renders[1].args.chat_template = OptionOf(t.payload.chat_template)
               /\ t.prompt_string =
                    apply_chat_template(t.payload.chat_template.s,
                                        MaterializedTurns(t),
                                        model.bos[1], model.eos[1]).val

C1_Witness ==
  \E r \in Requests :
    /\ task[r].op = "do_completion"
    /\ task[r].payload.messages.items # <<>>
    /\ Given(task[r].payload.chat_template)
    /\ task[r].payload.chat_format = JStr("chatml")
    /\ task[r].pc = "done"
    /\ task[r].response.status = "ok"

----------------------------------------------------------------------------
(* C2 *)

\* C2: when the payload has no messages, the resolved prompt and the prompt
\* handed to Model::complete are the code of the context, whatever
\* chat_template and chat_format are, and no token lookup, no template
\* rendering and no named-template call is made.
C2_RawPromptVerbatim ==
  \A r \in Requests :
    LET t == task[r]
        completions == CallsOf(t, {"Model::complete"})
    IN (Pipeline(r) /\ ~Given(t.payload.messages))
       => /\ Fns(t) \subseteq {"serde_json::from_value", "Model::complete"}
          /\ Resolved(t) => t.prompt_string = t.prompt.code
          /\ \A i \in DOMAIN completions :
               completions[i].args.prompt = t.prompt.code

C2_Witness ==
  \E r \in Requests :
    /\ Pipeline(r)
    /\ ~Given(task[r].payload.messages)
    /\ Given(task[r].payload.chat_template)
    /\ Given(task[r].payload.chat_format)
    /\ task[r].prompt.code = <<"code1">>
    /\ task[r].pc = "done"
    /\ "Model::complete" \in Fns(task[r])

----------------------------------------------------------------------------
(* C3 *)

\* Resolution has run to its end, successfully or not.
ResolutionOver(t) ==
  \/ Resolved(t)
  \/ /\ t.pc = "failed"
     /\ t.trace[Len(t.trace)].fn # "serde_json::from_value"

\* C3: with messages present and chat_template absent, a request never
\* looks up bos/eos and never renders a custom template; it calls the
\* engine's named-template capability at most once, and exactly once by
\* the end of prompt resolution, with the materialized turns and the
\* payload's chat_format (None when absent); when that call succeeds the
\* resolved prompt is the string it returned.
C3_NamedTemplateDelegation ==
  \A r \in Requests :
    LET t == task[r]
        named == CallsOf(t, {"Model::apply_chat_template"})
    IN (/\ Pipeline(r)
        /\ WellFormed(t.payload)
        /\ Given(t.payload.messages)
        /\ ~Given(t.payload.chat_template))
       => /\ Fns(t) \cap {"Model::get_bos_token", "Model::get_eos_token",
                          "template::apply_chat_template"} = {}
          /\ Len(named) <= 1
          /\ ResolutionOver(t) =>
               /\ Len(named) = 1
               /\ named[1].args.chat_messages = MaterializedTurns(t)
               /\ named[1].args.chat_format = OptionOf(t.payload.chat_format)
               /\ named[1].ok = model_apply_chat_template(model,
                                  MaterializedTurns(t),
                                  OptionOf(t.payload.chat_format)).ok
               /\ named[1].ok =>
                    t.prompt_string =
                      model_apply_chat_template(model, MaterializedTurns(t),
                        OptionOf(t.payload.chat_format)).val

C3_Witness ==
  \E r \in Requests :
    /\ Pipeline(r)
    /\ task[r].payload.messages.items # <<>>
    /\ ~Given(task[r].payload.chat_template)
    /\ task[r].payload.chat_format = JStr("chatml")
    /\ task[r].pc = "done"
    /\ Len(CallsOf(task[r], {"Model::apply_chat_template"})) = 1

----------------------------------------------------------------------------
(* C4 *)

\* C4: do_generate_stream never succeeds, never parses its payload and
\* never calls the engine or the renderer; when it has run, its response is
\* a failure carrying no text.
C4_StreamAlwaysFails ==
  \A r \in Requests :
    LET t == task[r]
    IN t.op = "do_generate_stream"
       => /\ t.trace = <<>>
          /\ t.params = NoParams
          /\ t.pc \in {"stream", "failed"}
          /\ t.response.status # "ok"
          /\ t.pc = "failed" =>
               /\ t.response.status = "err"
               /\ t.response.text = <<>>

C4_Witness ==
  \E r \in Requests :
    /\ task[r].op = "do_generate_stream"
    /\ WellFormed(task[r].payload)
    /\ Given(task[r].payload.messages)
    /\ task[r].pc = "failed"

----------------------------------------------------------------------------
(* C5 *)

\* C5: a complete/generate request whose payload does not deserialize
\* makes no call besides the parse itself, so no engine call of any kind,
\* and ends in a failure.
C5_MalformedNoEngineCall ==
  \A r \in Requests :
    LET t == task[r]
    IN (Pipeline(r) /\ ~WellFormed(t.payload))
       => /\ Fns(t) \cap EngineFns = {}
          /\ Fns(t) \subseteq {"serde_json::from_value"}
          /\ t.pc \in {"parse", "failed"}
          /\ t.pc = "failed" => t.response.status = "err"

C5_Witness ==
  \E r \in Requests :
    /\ Pipeline(r)
    /\ task[r].payload.max_new_tokens = JStr("abc")
    /\ Given(task[r].payload.messages)
    /\ task[r].pc = "failed"

----------------------------------------------------------------------------
(* C6 *)

\* What the payload says, field by field; 32 where max_new_tokens is
\* omitted.
ExpectedParams(payload) ==
  [fim |-> IF payload.fim.t = "obj"
             THEN Some([start |-> payload.fim.start,
                        middle |-> payload.fim.middle,
                        end |-> payload.fim.end])
             ELSE None,
   messages |-> IF payload.messages.t = "arr"
                  THEN Some(payload.messages.items) ELSE None,
   chat_template |-> OptionOf(payload.chat_template),
   chat_format |-> OptionOf(payload.chat_format),
   max_new_tokens |-> IF payload.max_new_tokens.t = "num"
                        THEN payload.max_new_tokens.n ELSE 32]

\* C6: every call of Model::complete receives the parameters of the
\* payload: max_new_tokens as given, 32 when omitted (a max_tokens field
\* changes nothing), fim as given or None, on every resolution branch.
C6_ParamsPassThrough ==
  \A r \in Requests :
    LET t == task[r]
        completions == CallsOf(t, {"Model::complete"})
    IN Pipeline(r)
       => \A i \in DOMAIN completions :
            completions[i].args.params = ExpectedParams(t.payload)

C6_Witness ==
  \E r \in Requests :
    LET t == task[r]
        completions == CallsOf(t, {"Model::complete"})
    IN /\ Pipeline(r)
       /\ t.payload.max_new_tokens = JAbsent
       /\ t.payload.max_tokens = JNum(64)
       /\ t.payload.fim = Fim
       /\ Given(t.payload.messages)
       /\ Given(t.payload.chat_template)
       /\ Len(completions) = 1
       /\ completions[1].args.params.max_new_tokens = 32
       /\ completions[1].args.params.fim # None

----------------------------------------------------------------------------
(* C7 *)

\* The token lookups a custom-template resolution makes on engine m.
ExpectedLookups(m) ==
  IF m.bos = None
    THEN <<Call("Model::get_bos_token", FALSE, NoArgs)>>
    ELSE <<Call("Model::get_bos_token", TRUE, NoArgs),
           Call("Model::get_eos_token", m.eos # None, NoArgs)>>

FnsOf(calls) == [i \in DOMAIN calls |-> calls[i].fn]

\* C7: with messages and chat_template present, the lookups are bos then
\* eos, fixed by the engine alone; the renderer runs at most once, only
\* after both lookups succeeded, with the engine's two tokens, the
\* materialized turns and the payload's template; a failed lookup ends the
\* request in a failure with neither a rendering nor a completion.
C7_TokensBeforeRender ==
  \A r \in Requests :
    LET t == task[r]
        lookups == CallsOf(t, {"Model::get_bos_token", "Model::get_eos_token"})
        renders == CallsOf(t, {"template::apply_chat_template"})
        steps == CallsOf(t, {"Model::get_bos_token", "Model::get_eos_token",
                             "template::apply_chat_template"})
    IN (/\ Pipeline(r)
        /\ WellFormed(t.payload)
        /\ Given(t.payload.messages)
        /\ Given(t.payload.chat_template))
       => /\ IsPrefix(lookups, ExpectedLookups(model))
          /\ IsPrefix(FnsOf(steps),
                      <<"Model::get_bos_token", "Model::get_eos_token",
                        "template::apply_chat_template">>)
          /\ ResolutionOver(t) =>
               /\ lookups = ExpectedLookups(model)
               /\ (model.bos # None /\ model.eos # None) => Len(renders) = 1
          /\ (model.bos = None \/ model.eos = None) =>
               /\ Fns(t) \cap {"template::apply_chat_template",
                               "Model::complete"} = {}
               /\ \A i \in DOMAIN lookups :
                    ~lookups[i].ok =>
                      t.pc = "failed" /\ t.response.status = "err"
          /\ renders # <<>> =>
               /\ renders[1].args.bos_token = model.bos[1]
               /\ renders[1].args.eos_token = model.eos[1]
               /\ renders[1].args.chat_messages = MaterializedTurns(t)
               /\ renders[1].args.chat_template =
                    OptionOf(t.payload.chat_template)

C7_Witness ==
  \E r \in Requests :
    LET t == task[r]
    IN /\ Pipeline(r)
       /\ Given(t.payload.messages)
       /\ t.payload.chat_template = JStr("T2")
       /\ model.bos # None
       /\ model.eos = None
       /\ t.pc = "failed"
       /\ "Model::get_eos_token" \in Fns(t)

----------------------------------------------------------------------------
(* C10 *)

StageOf(fn) ==
  CASE fn = "serde_json::from_value" -> 1
    [] fn = "Model::complete" -> 3
    [] OTHER -> 2

\* C10: the calls of a complete/generate request are ordered parse, prompt
\* resolution, completion, none of them made twice; Model::complete is
\* called only after a successful parse and a successful resolution; a
\* call that fails is the last one of the request, which then ends with a
\* failure response; a success response is given only when every call,
\* the completion last, succeeded.
C10_PipelineOrder ==
  \A r \in Requests :
    LET t == task[r]
        n == Len(t.trace)
    IN Pipeline(r)
       => /\ \A i, j \in 1..n :
               i < j => /\ StageOf(t.trace[i].fn) <= StageOf(t.trace[j].fn)
                        /\ t.trace[i].fn # t.trace[j].fn
          /\ \A i \in 1..n :
               t.trace[i].fn = "Model::complete"
                 => /\ i > 1
                    /\ t.trace[1].fn = "serde_json::from_value"
                    /\ \A k \in 1..(i - 1) : t.trace[k].ok
                    /\ t.prompt_string = t.trace[i].args.prompt
          /\ \A i \in 1..n :
               ~t.trace[i].ok
                 => /\ i = n
                    /\ t.pc = "failed"
                    /\ t.response.status = "err"
          /\ t.response.status = "ok"
               => /\ t.pc = "done"
                  /\ n > 0
                  /\ t.trace[n].fn = "Model::complete"
                  /\ \A i \in 1..n : t.trace[i].ok
          /\ t.pc = "done" => t.response.status = "ok"
          /\ t.pc = "failed" => t.response.status = "err"

C10_Witness ==
  \E r \in Requests :
    LET t == task[r]
    IN /\ Pipeline(r)
       /\ Given(t.payload.messages)
       /\ t.pc = "failed"
       /\ Len(t.trace) > 1
       /\ t.trace[Len(t.trace)].fn = "Model::complete"
       /\ ~t.trace[Len(t.trace)].ok

----------------------------------------------------------------------------
(* C8 *)

Finished(t) == t.pc \in {"done", "failed"}

\* C8: a do_completion and a do_generate call given the same code context
\* and payload make the same calls with the same arguments and outcomes,
\* and both fail or both succeed with the same text, returned as
\* insert_text by the one and as generated_text by the other.
C8_CompleteGenerateAgree ==
  \A r, q \in Requests :
    LET a == task[r]
        b == task[q]
    IN (/\ a.op = "do_completion"
        /\ b.op = "do_generate"
        /\ a.prompt = b.prompt
        /\ a.payload = b.payload
        /\ Finished(a)
        /\ Finished(b))
       => /\ a.trace = b.trace
          /\ a.response.status = b.response.status
          /\ a.response.text = b.response.text
          /\ a.response.status = "ok" =>
               /\ a.response.field = "insert_text"
               /\ b.response.field = "generated_text"

C8_Witness ==
  \E r, q \in Requests :
    /\ task[r].op = "do_completion"
    /\ task[q].op = "do_generate"
    /\ task[r].prompt = task[q].prompt
    /\ task[r].payload = CustomPayload
    /\ task[q].payload = CustomPayload
    /\ task[r].response.status = "ok"
    /\ task[q].response.status = "ok"
    /\ task[r].response.text # <<>>

----------------------------------------------------------------------------
(* C9 *)

\* Prompt resolution done in one piece on a request's own inputs and the
\* engine's answers.
ReferencePrompt(m, prompt, payload) ==
  LET p == ExpectedParams(payload)
      turns == format_chat_messages(p.messages[1], prompt)
  IN CASE p.messages = None -> Ok(prompt.code)
       [] p.messages # None /\ p.chat_template = None ->
            model_apply_chat_template(m, turns, p.chat_format)
       [] p.messages # None /\ p.chat_template # None
            /\ (m.bos = None \/ m.eos = None) -> Err("missing special token")
       [] OTHER ->
            apply_chat_template(p.chat_template[1], turns, m.bos[1], m.eos[1])

PromptIsOwn(m, t) ==
  LET ref == ReferencePrompt(m, t.prompt, t.payload)
      completions == CallsOf(t, {"Model::complete"})
  IN t.op \in PipelineOps
     => /\ Resolved(t) => ref.ok /\ t.prompt_string = ref.val
        /\ \A i \in DOMAIN completions :
             ref.ok /\ completions[i].args.prompt = ref.val

\* C9: under any interleaving of the steps of concurrent requests, no step
\* modifies the engine handle, a step of one request changes the frame of
\* no other request, and the prompt a request resolves and hands to
\* Model::complete is the one its own code context and payload give on the
\* engine, whatever the other requests are, do or fail at.
C9_NoInterference ==
  [][/\ model' = model
     /\ \A r, q \in Requests :
          (r # q /\ task'[r] # task[r]) => task'[q] = task[q]
     /\ \A r \in Requests : PromptIsOwn(model', task'[r])]_vars

C9_Witness ==
  \E r, q \in Requests :
    /\ r # q
    /\ task[r].payload = CustomPayload
    /\ task[r].pc = "complete"
    /\ task[q].payload = UnknownFormatPayload
    /\ task[q].prompt # task[r].prompt
    /\ task[q].pc = "failed"

====
